---- MODULE Spec2Model ----
(***************************************************************************)
(* Automaton Auditor (Digital Courtroom): the detective / judge graph, the *)
(* state reducers, the structured-output wrapper of the judges and the     *)
(* Chief Justice synthesis.                                                *)
(*                                                                         *)
(* The Python modules (src/graph.py, src/state.py, src/nodes/*.py) are not *)
(* part of the source tree at hand; the model follows the documents that   *)
(* declare them (state schema, graph topology, contracts, the generated    *)
(* audit report) and, where no document decides, the specification.        *)
(*                                                                         *)
(* Specifications:                                                         *)
(*   Spec          one execution of the graph                              *)
(*   FairSpec      Spec with weak fairness of the engine's steps           *)
(*   SpecMerge     the evidences reducer applied to bounded inputs         *)
(*   SpecSynth     synthesize applied to bounded inputs                    *)
(*   SpecValidator one call of the structured-output wrapper               *)
(*   SpecApi       submissions, the admission gate, the run store, polls   *)
(*   FairSpecApi   SpecApi with weak fairness of admission and execution   *)
(***************************************************************************)
EXTENDS Integers, Sequences, FiniteSets, TLC

VARIABLES
    \* ---- one graph execution (AgentState and the engine's bookkeeping)
    repo_url,       \* AgentState.repo_url
    pdf_path,       \* AgentState.pdf_path
    evidences,      \* AgentState.evidences : dimension id -> list of Evidence
    opinions,       \* AgentState.opinions  : list of JudicialOpinion
    final_report,   \* AgentState.final_report
    node,           \* node name -> "idle" | "ready" | "running" | "done" | "skipped" | "failed"
    invocations,    \* node name -> number of times the node's task was invoked
    partial,        \* node name -> the partial state the node returned
    checkpoint,     \* the state values saved at the last step boundary
    run_status,     \* "running" | "completed" | "failed"
    failed_node,    \* name of the node whose task raised, or "none"
    \* ---- the evidences reducer on its own
    m_state, m_update, m_merged, m_pc,
    \* ---- synthesize on its own
    s_criterion, s_opinions, s_evidences, s_result, s_pc,
    \* ---- one call of the structured-output wrapper
    v_judge, v_criterion, v_attempts, v_log, v_result, v_pc,
    \* ---- the API: run store, admission gate, responses, a poller
    a_store,        \* run id -> RunRecord (status, result, error)
    a_request,      \* run id -> the request that was given this id, or None
    a_response,     \* run id -> what the HTTP caller has received so far
    a_next,         \* the next run id to hand out
    a_seen,         \* the record the last GET /api/run/{run_id} returned
    \* ---- the final_report field on its own
    r_report,       \* the value of the field: None or a list of one report
    r_log,          \* the reports written to the field, in order
    r_error,        \* whether a write to the field was rejected
    \* ---- the worker pools of one run
    w_detective_workers,    \* AUDITOR_DETECTIVE_WORKERS
    w_judge_workers,        \* AUDITOR_JUDGE_WORKERS
    w_task,         \* detective or judge node -> "waiting" | "running" | "done"
    \* ---- the nodes behind the aggregator and the evidence map
    x_aggregated,   \* the evidence map as the aggregator's barrier left it
    x_evidences,    \* the evidence map now
    x_stage,        \* the node that ran last
    \* ---- the web UI (frontend/app/page.tsx)
    u_rubric,       \* rubricDimensions
    u_rubric_error, \* rubricError
    u_loading,      \* form -> loading / repoLoading / docLoading / parallelLoading
    u_error,        \* form -> error / repoError / docError / parallelError
    u_evidences,    \* result field -> Evidences | null
    u_inflight,     \* form -> the requests sent and not yet answered
    \* ---- splitEvidencesByArtifact on its own
    p_evidences, p_rubric, p_result, p_pc

gvars == <<repo_url, pdf_path, evidences, opinions, final_report, node,
           invocations, partial, checkpoint, run_status, failed_node>>
mvars == <<m_state, m_update, m_merged, m_pc>>
svars == <<s_criterion, s_opinions, s_evidences, s_result, s_pc>>
vvars == <<v_judge, v_criterion, v_attempts, v_log, v_result, v_pc>>
avars == <<a_store, a_request, a_response, a_next, a_seen>>
rvars == <<r_report, r_log, r_error>>
wvars == <<w_detective_workers, w_judge_workers, w_task>>
xvars == <<x_aggregated, x_evidences, x_stage>>
uvars == <<u_rubric, u_rubric_error, u_loading, u_error, u_evidences,
           u_inflight>>
pvars == <<p_evidences, p_rubric, p_result, p_pc>>
vars  == <<gvars, mvars, svars, vvars, avars, rvars, wvars, xvars, uvars,
           pvars>>

(***************************************************************************)
(* Rubric, nodes, personas                                                 *)
(***************************************************************************)
rubric_dimensions ==
    << [id |-> "git_forensic_analysis", target_artifact |-> "github_repo"],
       [id |-> "graph_orchestration",   target_artifact |-> "github_repo"],
       [id |-> "theoretical_depth",     target_artifact |-> "pdf_report"],
       [id |-> "swarm_visual",          target_artifact |-> "pdf_images"] >>

DimIds == {rubric_dimensions[i].id : i \in DOMAIN rubric_dimensions}

GateNodes      == {"doc_gate", "repo_gate", "vision_gate"}
DetectiveNodes == {"doc_analyst", "repo_investigator", "vision_inspector"}
JudgeNodes     == {"defense", "prosecutor", "tech_lead"}
Nodes == {"entry", "evidence_aggregator", "chief_justice"}
            \cup GateNodes \cup DetectiveNodes \cup JudgeNodes

DetectiveOf(g) ==
    CASE g = "doc_gate"    -> "doc_analyst"
      [] g = "repo_gate"   -> "repo_investigator"
      [] g = "vision_gate" -> "vision_inspector"

TargetArtifact(d) ==
    CASE d = "repo_investigator" -> "github_repo"
      [] d = "doc_analyst"       -> "pdf_report"
      [] d = "vision_inspector"  -> "pdf_images"

Judge(j) ==
    CASE j = "defense"    -> "Defense"
      [] j = "prosecutor" -> "Prosecutor"
      [] j = "tech_lead"  -> "TechLead"

Personas == {"Prosecutor", "Defense", "TechLead"}

RepoUrls == {"", "https://github.com/owner/repo"}
PdfPaths == {"", "/path/to/report.pdf"}

(***************************************************************************)
(* State reducers                                                          *)
(***************************************************************************)
EmptyMap == [k \in {} |-> <<>>]

\* operator.ior on dicts: the right operand's value wins at a shared key
IorLeftWins(a, b) ==
    [k \in (DOMAIN a) \cup (DOMAIN b) |-> IF k \in DOMAIN a THEN a[k] ELSE b[k]]

Ior(a, b) ==
    [k \in (DOMAIN a) \cup (DOMAIN b) |-> IF k \in DOMAIN b THEN b[k] ELSE a[k]]

\* operator.add on lists: concatenation
AddOverwrites(a, b) == b

Add(a, b) == a \o b

(***************************************************************************)
(* Evidence and JudicialOpinion                                            *)
(***************************************************************************)
MinScore == 1
MaxScore == 5
ScoreRange == MinScore..MaxScore

Evidence(goal, found, location) ==
    [goal |-> goal, found |-> found, location |-> location]

\* A JudicialOpinion.  The argument is kept as what the Chief Justice reads
\* from it: whether it cites a confirmed security vulnerability, whether it
\* credits the capability the criterion asks for, whether it is the text of
\* a placeholder.
Opinion(judge, criterion_id, score, cited, security, credits, placeholder) ==
    [judge |-> judge, criterion_id |-> criterion_id, score |-> score,
     cited_evidence |-> cited, security |-> security, credits |-> credits,
     placeholder |-> placeholder]

PlaceholderScore == 3

PlaceholderOpinionLowest(judge, criterion_id) ==
    Opinion(judge, criterion_id, MinScore, <<>>, FALSE, FALSE, TRUE)

PlaceholderOpinion(judge, criterion_id) ==
    Opinion(judge, criterion_id, PlaceholderScore, <<>>, FALSE, FALSE, TRUE)

(***************************************************************************)
(* Chief Justice: synthesize                                               *)
(***************************************************************************)
RECURSIVE SeqSum(_)
SeqSum(s) == IF s = <<>> THEN 0 ELSE Head(s) + SeqSum(Tail(s))

SetMax(S) == CHOOSE x \in S : \A y \in S : y <= x
SetMin(S) == CHOOSE x \in S : \A y \in S : x <= y

RawScores(ops) == [i \in DOMAIN ops |-> ops[i].score]

\* spread of the raw scores (max - min); 0 for an empty list
Spread(ops) ==
    IF ops = <<>> THEN 0
    ELSE LET S == {ops[i].score : i \in DOMAIN ops} IN SetMax(S) - SetMin(S)

DissentThreshold == 2

\* Rule of Security: the Prosecutor cites a confirmed security vulnerability
SecurityOverride(ops) ==
    \E i \in DOMAIN ops : ops[i].judge = "Prosecutor" /\ ops[i].security

SecurityCap == 3

\* Rule of Evidence: the opinion credits a capability for which the evidence
\* of the same goal says found = false
Contradicted(o, ev) ==
    /\ o.credits
    /\ o.criterion_id \in DOMAIN ev
    /\ \E i \in DOMAIN ev[o.criterion_id] : ~ev[o.criterion_id][i].found

DiscountedAlways(o, ev) ==
    IF o.score > MinScore THEN o.score - 1 ELSE o.score

\* the score of an opinion after the Rule of Evidence: an overruled opinion
\* is moved one step toward the lowest score
Discounted(o, ev) ==
    IF Contradicted(o, ev) /\ o.score > MinScore THEN o.score - 1 ELSE o.score

EffectiveScores(ops, ev) == [i \in DOMAIN ops |-> Discounted(ops[i], ev)]

IsArchitecture(criterion) == criterion.id = "graph_orchestration"

\* Rule of Functionality: the Tech Lead's opinion, consistent with the
\* evidence, decides an architecture criterion
FunctionalityApplies(criterion, ops, ev) ==
    /\ IsArchitecture(criterion)
    /\ \E i \in DOMAIN ops :
          /\ ops[i].judge = "TechLead"
          /\ ~ops[i].placeholder
          /\ ~Contradicted(ops[i], ev)

TechLeadScore(ops, ev) ==
    LET i == CHOOSE k \in DOMAIN ops :
                 /\ ops[k].judge = "TechLead"
                 /\ ~ops[k].placeholder
                 /\ ~Contradicted(ops[k], ev)
    IN  Discounted(ops[i], ev)

\* median, a half rounded up
MedianLowest(s) == SortSeq(s, <)[1]

MedianUnsorted(s) == s[(Len(s) + 1) \div 2]

Median(s) ==
    LET n      == Len(s)
        sorted == SortSeq(s, <)
    IN  IF n % 2 = 1 THEN sorted[(n + 1) \div 2]
        ELSE (sorted[n \div 2] + sorted[(n \div 2) + 1] + 1) \div 2

\* mean, truncated
MeanFloor(s) == SeqSum(s) \div Len(s)

\* variance re-evaluation is taken when the spread exceeds the threshold
ReEvaluatedNever(ops) == FALSE

ReEvaluated(ops) == Spread(ops) > DissentThreshold

\* the score before the security cap
BaseScoreZeroWhenEmpty(criterion, ops, ev) ==
    IF ops = <<>> THEN 0
    ELSE IF FunctionalityApplies(criterion, ops, ev) THEN TechLeadScore(ops, ev)
    ELSE IF ReEvaluated(ops) THEN MeanFloor(EffectiveScores(ops, ev))
    ELSE Median(EffectiveScores(ops, ev))

BaseScore(criterion, ops, ev) ==
    IF ops = <<>> THEN PlaceholderScore
    ELSE IF FunctionalityApplies(criterion, ops, ev) THEN TechLeadScore(ops, ev)
    ELSE IF ReEvaluated(ops) THEN MeanFloor(EffectiveScores(ops, ev))
    ELSE Median(EffectiveScores(ops, ev))

FinalScoreFunctionalityFirst(criterion, ops, ev) ==
    IF FunctionalityApplies(criterion, ops, ev) THEN TechLeadScore(ops, ev)
    ELSE IF SecurityOverride(ops) /\ BaseScore(criterion, ops, ev) > SecurityCap
         THEN SecurityCap
    ELSE BaseScore(criterion, ops, ev)

FinalScore(criterion, ops, ev) ==
    IF SecurityOverride(ops) /\ BaseScore(criterion, ops, ev) > SecurityCap
    THEN SecurityCap
    ELSE BaseScore(criterion, ops, ev)

NoDissent == "none"

DissentOnlyForNamedRules(criterion, ops, ev) ==
    IF SecurityOverride(ops) THEN "Rule of Security"
    ELSE IF FunctionalityApplies(criterion, ops, ev) THEN "Rule of Functionality"
    ELSE NoDissent

\* dissent_summary, by the kind of text written
DissentSummary(criterion, ops, ev) ==
    IF ReEvaluated(ops) THEN "Score variance > 2; re-evaluation applied"
    ELSE IF SecurityOverride(ops) THEN "Rule of Security"
    ELSE IF FunctionalityApplies(criterion, ops, ev) THEN "Rule of Functionality"
    ELSE IF Spread(ops) > 0 THEN "judge scores"
    ELSE NoDissent

\* remediation is taken from the lowest-scoring opinion
Remediation(ops) ==
    IF ops = <<>> THEN "none"
    ELSE LET i == CHOOSE k \in DOMAIN ops :
                     /\ \A m \in DOMAIN ops : ops[k].score <= ops[m].score
                     /\ \A m \in DOMAIN ops :
                            ops[m].score = ops[k].score => k <= m
         IN  ops[i].judge

synthesize(criterion, ops, ev) ==
    [dimension_id    |-> criterion.id,
     final_score     |-> FinalScore(criterion, ops, ev),
     judge_opinions  |-> ops,
     dissent_summary |-> DissentSummary(criterion, ops, ev),
     re_evaluated    |-> ReEvaluated(ops),
     remediation     |-> Remediation(ops)]

(***************************************************************************)
(* The graph: START -> entry -> gates -> detectives -> evidence_aggregator *)
(*            -> judges -> chief_justice -> END                            *)
(***************************************************************************)
\* the values of the reducer-backed fields
NoValues == [evidences |-> EmptyMap, opinions |-> <<>>]
NoResult == [evidences |-> EmptyMap, opinions |-> <<>>, read |-> NoValues]
\* an Optional value is a list of at most one element
None == <<>>
NoReport == None

\* the state a stand-alone check of a reducer or of synthesize leaves idle
GraphIdle ==
    /\ repo_url = ""
    /\ pdf_path = ""
    /\ evidences = EmptyMap
    /\ opinions = <<>>
    /\ final_report = NoReport
    /\ node = [n \in Nodes |-> "idle"]
    /\ invocations = [n \in Nodes |-> 0]
    /\ partial = [n \in Nodes |-> NoResult]
    /\ checkpoint = NoValues
    /\ run_status = "idle"
    /\ failed_node = "none"

\* graph.invoke({"repo_url": ..., "pdf_path": ..., "rubric_dimensions": [...]})
GraphInit ==
    /\ repo_url \in RepoUrls
    /\ pdf_path \in PdfPaths
    /\ evidences = EmptyMap
    /\ opinions = <<>>
    /\ final_report = NoReport
    /\ node = [n \in Nodes |-> "idle"]
    /\ invocations = [n \in Nodes |-> 0]
    /\ partial = [n \in Nodes |-> NoResult]
    /\ checkpoint = NoValues
    /\ run_status = "running"
    /\ failed_node = "none"

\* the current values of the reducer-backed fields
StateValues == [evidences |-> evidences, opinions |-> opinions]

\* what the engine hands a task to read: the values saved before its step,
\* not the values sibling tasks of the same step are being merged into
TaskInputLive == StateValues

TaskInput == checkpoint

\* a gate routes to its detective when the detective's artifact is supplied
ArtifactAvailableNeverSkips(g) == TRUE

ArtifactAvailable(g) ==
    IF g = "repo_gate" THEN repo_url # "" ELSE pdf_path # ""

\* START -> entry -> [doc_gate, repo_gate, vision_gate]
Entry ==
    /\ run_status = "running"
    /\ checkpoint' = StateValues
    /\ node["entry"] = "idle"
    /\ node' = [n \in Nodes |->
                  IF n = "entry" THEN "done"
                  ELSE IF n \in GateNodes THEN "ready"
                  ELSE node[n]]
    /\ invocations' = [invocations EXCEPT !["entry"] = @ + 1]
    /\ UNCHANGED <<repo_url, pdf_path, evidences, opinions, final_report,
                   partial, run_status, failed_node>>
    /\ UNCHANGED <<mvars, svars, vvars, avars, rvars, wvars,
                   xvars, uvars, pvars>>

\* conditional edge of a gate: its detective, or skip to evidence_aggregator
GateFailsOnMissingArtifact(g) ==
    /\ run_status = "running"
    /\ node[g] = "ready"
    /\ node' = [node EXCEPT
                  ![g] = "done",
                  ![DetectiveOf(g)] =
                      IF ArtifactAvailable(g) THEN "running" ELSE "failed"]
    /\ invocations' = [invocations EXCEPT
                  ![g] = @ + 1,
                  ![DetectiveOf(g)] = IF ArtifactAvailable(g) THEN @ + 1 ELSE @]
    /\ run_status' = IF ArtifactAvailable(g) THEN run_status ELSE "failed"
    /\ failed_node' = IF ArtifactAvailable(g) THEN failed_node ELSE DetectiveOf(g)
    /\ UNCHANGED <<checkpoint, repo_url, pdf_path, evidences, opinions, final_report, partial>>
    /\ UNCHANGED <<mvars, svars, vvars, avars, rvars, wvars,
                   xvars, uvars, pvars>>

Gate(g) ==
    /\ run_status = "running"
    /\ node[g] = "ready"
    /\ node' = [node EXCEPT
                  ![g] = "done",
                  ![DetectiveOf(g)] =
                      IF ArtifactAvailable(g) THEN "running" ELSE "skipped"]
    /\ invocations' = [invocations EXCEPT
                  ![g] = @ + 1,
                  ![DetectiveOf(g)] = IF ArtifactAvailable(g) THEN @ + 1 ELSE @]
    /\ UNCHANGED <<checkpoint, repo_url, pdf_path, evidences, opinions, final_report,
                   partial, run_status, failed_node>>
    /\ UNCHANGED <<mvars, svars, vvars, avars, rvars, wvars,
                   xvars, uvars, pvars>>

\* the dimensions a detective answers: those of its target artifact
DimensionsOf(d) ==
    {rubric_dimensions[i].id : i \in
        {k \in DOMAIN rubric_dimensions :
            rubric_dimensions[k].target_artifact = TargetArtifact(d)}}

\* what a detective returns: one Evidence per dimension of its artifact;
\* found = FALSE also stands for a clone failure or an unreadable PDF
DetectiveEvidence(d, found) ==
    [k \in DimensionsOf(d) |-> << Evidence(k, found, d) >>]

DetectiveReturnRaisesWhenNotFound(d, found) ==
    /\ run_status = "running"
    /\ node[d] = "running"
    /\ evidences' = Ior(evidences, DetectiveEvidence(d, found))
    /\ partial' = [partial EXCEPT ![d] =
                      [evidences |-> DetectiveEvidence(d, found), opinions |-> <<>>,
                       read |-> TaskInput]]
    /\ node' = [node EXCEPT ![d] = IF found THEN "done" ELSE "failed"]
    /\ run_status' = IF found THEN run_status ELSE "failed"
    /\ failed_node' = IF found THEN failed_node ELSE d
    /\ UNCHANGED <<checkpoint, repo_url, pdf_path, opinions, final_report, invocations>>
    /\ UNCHANGED <<mvars, svars, vvars, avars, rvars, wvars,
                   xvars, uvars, pvars>>

\* a detective's task returns and the engine merges its partial state
DetectiveReturn(d, found) ==
    /\ run_status = "running"
    /\ node[d] = "running"
    /\ evidences' = Ior(evidences, DetectiveEvidence(d, found))
    /\ partial' = [partial EXCEPT ![d] =
                      [evidences |-> DetectiveEvidence(d, found), opinions |-> <<>>,
                       read |-> TaskInput]]
    /\ node' = [node EXCEPT ![d] = "done"]
    /\ UNCHANGED <<checkpoint, repo_url, pdf_path, opinions, final_report, invocations,
                   run_status, failed_node>>
    /\ UNCHANGED <<mvars, svars, vvars, avars, rvars, wvars,
                   xvars, uvars, pvars>>

\* a task raises only out of a call it makes (clone, extraction, judgment);
\* a judge with no evidence before it has no criterion to judge and calls
\* nothing
CanRaise(n) == n \in JudgeNodes => DOMAIN evidences # {}

\* a task raises an unrecoverable error: the node fails and so does the run
NodeFailSilently(n) ==
    /\ run_status = "running"
    /\ node[n] = "running"
    /\ CanRaise(n)
    /\ node' = [node EXCEPT ![n] = "failed"]
    /\ failed_node' = n
    /\ UNCHANGED <<checkpoint, repo_url, pdf_path, evidences, opinions, final_report,
                   invocations, partial, run_status>>
    /\ UNCHANGED <<mvars, svars, vvars, avars, rvars, wvars,
                   xvars, uvars, pvars>>

NodeFail(n) ==
    /\ run_status = "running"
    /\ node[n] = "running"
    /\ CanRaise(n)
    /\ node' = [node EXCEPT ![n] = "failed"]
    /\ run_status' = "failed"
    /\ failed_node' = n
    /\ UNCHANGED <<checkpoint, repo_url, pdf_path, evidences, opinions, final_report,
                   invocations, partial>>
    /\ UNCHANGED <<mvars, svars, vvars, avars, rvars, wvars,
                   xvars, uvars, pvars>>

\* a barrier is released when every predecessor has completed or was skipped
BarrierIgnoresSkip(preds) ==
    \A p \in preds : node[p] = "done"

BarrierOnFirstArrival(preds) ==
    \E p \in preds : node[p] \in {"done", "skipped"}

BarrierReleased(preds) ==
    \A p \in preds : node[p] \in {"done", "skipped"}

\* evidence_aggregator: fan-in of the three detective branches, then the
\* conditional edge (proceed -> defense | skip -> END) and the direct edges
\* to prosecutor and tech_lead
EvidenceAggregator ==
    /\ run_status = "running"
    /\ checkpoint' = StateValues
    /\ node["evidence_aggregator"] = "idle"
    /\ BarrierReleased(DetectiveNodes)
    /\ LET proceed == DOMAIN evidences # {} IN
       /\ node' = [node EXCEPT
                     !["evidence_aggregator"] = "done",
                     !["defense"]    = IF proceed THEN "running" ELSE "skipped",
                     !["prosecutor"] = "running",
                     !["tech_lead"]  = "running"]
       /\ invocations' = [invocations EXCEPT
                     !["evidence_aggregator"] = @ + 1,
                     !["defense"]    = IF proceed THEN @ + 1 ELSE @,
                     !["prosecutor"] = @ + 1,
                     !["tech_lead"]  = @ + 1]
    /\ UNCHANGED <<repo_url, pdf_path, evidences, opinions, final_report,
                   partial, run_status, failed_node>>
    /\ UNCHANGED <<mvars, svars, vvars, avars, rvars, wvars,
                   xvars, uvars, pvars>>

\* the criteria the panel judges: the rubric dimensions that have evidence
JudgedCriteria ==
    LET HasEvidence(d) == d.id \in DOMAIN evidences
    IN  SelectSeq(rubric_dimensions, HasEvidence)

\* what the structured-output wrapper hands back for one judge
GraphScores == {2, 5}
JudgeOutcomes ==
    {[kind |-> "valid", score |-> s] : s \in GraphScores}
        \cup {[kind |-> "placeholder", score |-> PlaceholderScore]}

JudgeOpinionsDropPlaceholder(j, outcome) ==
    IF outcome.kind = "placeholder" THEN <<>>
    ELSE [i \in DOMAIN JudgedCriteria |->
             Opinion(Judge(j), JudgedCriteria[i].id, outcome.score,
                     << JudgedCriteria[i].id >>, FALSE, FALSE, FALSE)]

JudgeOpinions(j, outcome) ==
    [i \in DOMAIN JudgedCriteria |->
        IF outcome.kind = "placeholder"
        THEN PlaceholderOpinion(Judge(j), JudgedCriteria[i].id)
        ELSE Opinion(Judge(j), JudgedCriteria[i].id, outcome.score,
                     << JudgedCriteria[i].id >>, FALSE, FALSE, FALSE)]

\* a judge returns one opinion per judged criterion; the engine appends them
JudgeReturn(j, outcome) ==
    /\ run_status = "running"
    /\ node[j] = "running"
    /\ opinions' = Add(opinions, JudgeOpinions(j, outcome))
    /\ partial' = [partial EXCEPT ![j] =
                      [evidences |-> EmptyMap, opinions |-> JudgeOpinions(j, outcome),
                       read |-> TaskInput]]
    /\ node' = [node EXCEPT ![j] = "done"]
    /\ UNCHANGED <<checkpoint, repo_url, pdf_path, evidences, final_report, invocations,
                   run_status, failed_node>>
    /\ UNCHANGED <<mvars, svars, vvars, avars, rvars, wvars,
                   xvars, uvars, pvars>>

OpinionsFor(criterion_id) ==
    LET About(o) == o.criterion_id = criterion_id
    IN  SelectSeq(opinions, About)

\* overall_score in hundredths: the mean of the final scores
OverallScoreOfFirst(criteria) ==
    IF criteria = <<>> THEN 0 ELSE 100 * criteria[1].final_score

OverallScore(criteria) ==
    IF criteria = <<>> THEN 0
    ELSE (100 * SeqSum([i \in DOMAIN criteria |-> criteria[i].final_score]))
            \div Len(criteria)

AuditReport ==
    LET criteria == [i \in DOMAIN JudgedCriteria |->
                        synthesize(JudgedCriteria[i],
                                   OpinionsFor(JudgedCriteria[i].id), evidences)]
    IN  [repo_url |-> repo_url, criteria |-> criteria,
         overall_score |-> OverallScore(criteria)]

\* chief_justice: fan-in of the three judges, writes final_report, then END
ChiefJustice ==
    /\ run_status = "running"
    /\ checkpoint' = StateValues
    /\ node["chief_justice"] = "idle"
    /\ BarrierReleased(JudgeNodes)
    /\ final_report' = << AuditReport >>
    /\ node' = [node EXCEPT !["chief_justice"] = "done"]
    /\ invocations' = [invocations EXCEPT !["chief_justice"] = @ + 1]
    /\ run_status' = "completed"
    /\ UNCHANGED <<repo_url, pdf_path, evidences, opinions, partial, failed_node>>
    /\ UNCHANGED <<mvars, svars, vvars, avars, rvars, wvars,
                   xvars, uvars, pvars>>

Next ==
    \/ Entry
    \/ \E g \in GateNodes : Gate(g)
    \/ \E d \in DetectiveNodes, found \in BOOLEAN : DetectiveReturn(d, found)
    \/ \E n \in DetectiveNodes \cup JudgeNodes : NodeFail(n)
    \/ EvidenceAggregator
    \/ \E j \in JudgeNodes, outcome \in JudgeOutcomes : JudgeReturn(j, outcome)
    \/ ChiefJustice

(***************************************************************************)
(* Idle values of the stand-alone parts                                    *)
(***************************************************************************)
MergeIdle ==
    /\ m_state = EmptyMap
    /\ m_update = EmptyMap
    /\ m_merged = EmptyMap
    /\ m_pc = "idle"

SynthIdle ==
    /\ s_criterion = rubric_dimensions[1]
    /\ s_opinions = <<>>
    /\ s_evidences = EmptyMap
    /\ s_result = None
    /\ s_pc = "idle"

ValidatorIdle ==
    /\ v_judge = "Defense"
    /\ v_criterion = rubric_dimensions[1].id
    /\ v_attempts = 0
    /\ v_log = <<>>
    /\ v_result = None
    /\ v_pc = "idle"

\* run ids handed out by the API
MaxRuns == 3
RunIds == 1..MaxRuns

AbsentRecord == [status |-> "absent", result |-> FALSE, error |-> FALSE]

ApiIdle ==
    /\ a_store = [k \in RunIds |-> AbsentRecord]
    /\ a_request = [k \in RunIds |-> None]
    /\ a_response = [k \in RunIds |-> "none"]
    /\ a_next = 1
    /\ a_seen = AbsentRecord

(***************************************************************************)
(* One execution of the graph                                              *)
(***************************************************************************)
\* the final_report field before any write
ReportIdle ==
    /\ r_report = None
    /\ r_log = <<>>
    /\ r_error = FALSE

DefaultWorkers == 3
WorkerTasks == DetectiveNodes \cup JudgeNodes

WorkersIdle ==
    /\ w_detective_workers = DefaultWorkers
    /\ w_judge_workers = DefaultWorkers
    /\ w_task = [t \in WorkerTasks |-> "waiting"]

\* the nodes behind the aggregator, not run
StageIdle ==
    /\ x_aggregated = EmptyMap
    /\ x_evidences = EmptyMap
    /\ x_stage = "idle"

\* the forms of the page and the fields that hold a result
Forms == {"audit", "repository", "document", "parallelism"}
ResultFields ==
    {"audit", "repository", "document", "parallel_repo", "parallel_doc"}

\* the page as mounted: useState defaults
UiIdle ==
    /\ u_rubric = <<>>
    /\ u_rubric_error = None
    /\ u_loading = [f \in Forms |-> FALSE]
    /\ u_error = [f \in Forms |-> None]
    /\ u_evidences = [r \in ResultFields |-> None]
    /\ u_inflight = [f \in Forms |-> <<>>]

SplitIdle ==
    /\ p_evidences = EmptyMap
    /\ p_rubric = <<>>
    /\ p_result = None
    /\ p_pc = "idle"

Init ==
    /\ GraphInit /\ MergeIdle /\ SynthIdle /\ ValidatorIdle /\ ApiIdle
    /\ ReportIdle /\ WorkersIdle
    /\ StageIdle /\ UiIdle /\ SplitIdle

Spec == Init /\ [][Next]_vars

\* every node's task is bounded in time (it returns or raises) and the engine
\* schedules every node whose predecessors are settled
FairSpec == Spec /\ WF_vars(Next)

(***************************************************************************)
(* Properties of one execution of the graph                                *)
(***************************************************************************)
Settled(n) == node[n] \in {"done", "skipped"}

Terminal == run_status \in {"completed", "failed"}

Count(seq, x) == Cardinality({i \in DOMAIN seq : seq[i] = x})

SameItems(a, b) ==
    /\ Len(a) = Len(b)
    /\ \A i \in DOMAIN a : Count(a, a[i]) = Count(b, a[i])

CanonicalEvidences ==
    Ior(Ior(partial["doc_analyst"].evidences,
            partial["repo_investigator"].evidences),
        partial["vision_inspector"].evidences)

CanonicalOpinions ==
    Add(Add(partial["defense"].opinions, partial["prosecutor"].opinions),
        partial["tech_lead"].opinions)

Downstream(n) ==
    IF n \in DetectiveNodes
    THEN {"evidence_aggregator", "chief_justice"} \cup JudgeNodes
    ELSE IF n \in JudgeNodes THEN {"chief_justice"}
    ELSE {}

\* C8: once a node's task has raised, the run is failed and carries the name
\* of that node, no node downstream of it has been or is being executed, and
\* there is no final report.
C8_FailedRunStopsAtFailedNode ==
    \A n \in Nodes :
        node[n] = "failed" =>
            /\ run_status = "failed"
            /\ failed_node = n
            /\ final_report = NoReport
            /\ \A m \in Downstream(n) :
                   node[m] = "idle" /\ invocations[m] = 0

\* a detective raised after a sibling branch had already returned evidence
C8_Witness ==
    /\ \E d \in DetectiveNodes : node[d] = "failed"
    /\ \E d \in DetectiveNodes : node[d] = "done"
    /\ DOMAIN evidences # {}

\* C9: every run ends, completed or failed; in particular no barrier is left
\* waiting for a predecessor that neither returns, nor is skipped, nor fails.
C9_EveryRunTerminates == <>Terminal

\* a run has completed through barriers released by skipped and by returned
\* predecessors
C9_Witness ==
    /\ run_status = "completed"
    /\ node["chief_justice"] = "done"
    /\ \E d \in DetectiveNodes : node[d] = "skipped"
    /\ \E d \in DetectiveNodes : node[d] = "done"

\* exactly one of the two inputs of a run is supplied
OneInput == (repo_url = "") # (pdf_path = "")

SkippedDetectives == {d \in DetectiveNodes : node[d] = "skipped"}

C10_State ==
    OneInput =>
        /\ \A g \in GateNodes :
               node[g] = "done" =>
                   /\ ~ArtifactAvailable(g) <=> node[DetectiveOf(g)] = "skipped"
                   /\ ~ArtifactAvailable(g) => failed_node # DetectiveOf(g)
        /\ run_status = "completed" =>
               /\ DOMAIN evidences # {}
               /\ DOMAIN evidences =
                      UNION {DimensionsOf(DetectiveOf(g)) :
                                g \in {h \in GateNodes : ArtifactAvailable(h)}}
               /\ (repo_url # "" => Cardinality(SkippedDetectives) = 2)
               /\ (pdf_path # "" => SkippedDetectives = {"repo_investigator"})

C11_NoJudgeWithoutEvidence ==
    (node["evidence_aggregator"] = "done" /\ DOMAIN evidences = {}) =>
        /\ \A j \in JudgeNodes : invocations[j] = 0
        /\ opinions = <<>>
        /\ invocations["chief_justice"] = 0

\* no input is supplied: every gate takes its skip path
AllSkipped == repo_url = "" /\ pdf_path = ""

C13_State ==
    AllSkipped =>
        /\ run_status # "failed"
        /\ \A d \in DetectiveNodes : node[d] \in {"idle", "skipped"}
        /\ run_status = "completed" =>
               /\ evidences = EmptyMap
               /\ opinions = <<>>

C30_TasksReadStateBeforeFanOut ==
    /\ \A d \in DetectiveNodes :
           node[d] = "done" => partial[d].read = NoValues
    /\ \A j \in JudgeNodes :
           node[j] = "done" =>
               /\ partial[j].read.opinions = <<>>
               /\ partial[j].read.evidences = evidences

\* doc_analyst and repo_investigator have both returned evidence, and all
\* three judges have returned opinions
C30_Witness ==
    /\ node["doc_analyst"] = "done"
    /\ node["repo_investigator"] = "done"
    /\ partial["doc_analyst"].evidences # EmptyMap
    /\ partial["repo_investigator"].evidences # EmptyMap
    /\ \A j \in JudgeNodes :
           node[j] = "done" /\ partial[j].opinions # <<>>

\* the detective could not obtain its artifact: all it returned is Evidence
\* with found = FALSE
ReturnedNotFound(d) ==
    /\ partial[d].evidences # EmptyMap
    /\ \A k \in DOMAIN partial[d].evidences :
           \A i \in DOMAIN partial[d].evidences[k] :
               ~partial[d].evidences[k][i].found

\* C25: a detective that returned Evidence with found = FALSE has completed
\* and is not the failed node of the run; its evidence is in the run state;
\* once every detective branch has returned or was skipped the aggregator
\* can run, and in a completed run it has run.
C25_NotFoundIsEvidenceNotFailure ==
    \A d \in DetectiveNodes :
        ReturnedNotFound(d) =>
            /\ node[d] = "done"
            /\ failed_node # d
            /\ \A k \in DOMAIN partial[d].evidences :
                   /\ k \in DOMAIN evidences
                   /\ evidences[k] = partial[d].evidences[k]
            /\ (/\ run_status = "running"
                /\ BarrierReleased(DetectiveNodes)
                /\ node["evidence_aggregator"] = "idle")
                   => ENABLED EvidenceAggregator
            /\ run_status = "completed" =>
                   invocations["evidence_aggregator"] = 1

\* every detective that ran returned found = FALSE, and the run went through
\* the aggregator to a report
C25_Witness ==
    /\ run_status = "completed"
    /\ node["evidence_aggregator"] = "done"
    /\ \E d \in DetectiveNodes : ReturnedNotFound(d)
    /\ \A d \in DetectiveNodes : node[d] = "done" => ReturnedNotFound(d)
    /\ final_report # NoReport

\* C26 as stated: the report of a completed run that had an input holds one
\* CriterionResult for every rubric dimension, in the order of the rubric.
C26_OneResultPerRubricDimension ==
    (run_status = "completed" /\ ~AllSkipped) =>
        /\ Len(final_report[1].criteria) = Len(rubric_dimensions)
        /\ \A i \in DOMAIN final_report[1].criteria :
               final_report[1].criteria[i].dimension_id = rubric_dimensions[i].id

\* C28: the overall score of a report with criteria is the mean of their
\* final scores up to one hundredth (the overall score in hundredths times
\* the number of criteria differs from 100 times the sum of the final scores
\* by less than the number of criteria), and lies between MinScore and
\* MaxScore.
C28_OverallIsMean ==
    (final_report # NoReport /\ final_report[1].criteria # <<>>) =>
        LET criteria == final_report[1].criteria
            n        == Len(criteria)
            total    == 100 * SeqSum([i \in DOMAIN criteria |->
                                          criteria[i].final_score])
            overall  == final_report[1].overall_score
        IN  /\ overall * n - total < n
            /\ total - overall * n < n
            /\ 100 * MinScore <= overall
            /\ overall <= 100 * MaxScore

\* a report of four criteria with different final scores, whose mean is no
\* whole number
C28_Witness ==
    /\ final_report # NoReport
    /\ Len(final_report[1].criteria) = 4
    /\ \E i, k \in DOMAIN final_report[1].criteria :
           final_report[1].criteria[i].final_score
               # final_report[1].criteria[k].final_score
    /\ final_report[1].overall_score % 100 # 0

(***************************************************************************)
(* The structured-output wrapper of a judge: one call for one criterion    *)
(***************************************************************************)
\* attempts allowed: the structured-output call and one JSON-only retry
MaxAttempts == 2

\* how attempt number n + 1 asks for its output
InvocationModeJsonFirst(n) == IF n = 0 THEN "json_only" ELSE "structured"

InvocationMode(n) == IF n = 0 THEN "structured" ELSE "json_only"

RetriesExhaustedOffByOne(n) == n > MaxAttempts

RetriesExhausted(n) == n >= MaxAttempts

\* outputs that cannot be made into a JudicialOpinion: text that does not
\* parse or validate, or an error answer of the provider (400, 429)
InvalidOutputs == {"malformed", "call_error"}

ValidatorInit ==
    /\ v_judge \in Personas
    /\ v_criterion \in DimIds
    /\ v_attempts = 0
    /\ v_log = <<>>
    /\ v_result = None
    /\ v_pc = "calling"

Attempted(outcome) ==
    /\ v_pc = "calling"
    /\ ~RetriesExhausted(v_attempts)
    /\ v_attempts' = v_attempts + 1
    /\ v_log' = Append(v_log, [mode |-> InvocationMode(v_attempts),
                               outcome |-> outcome])
    /\ UNCHANGED <<v_judge, v_criterion>>
    /\ UNCHANGED <<gvars, mvars, svars, avars, rvars, wvars,
                   xvars, uvars, pvars>>

\* the output parses and validates: it is returned
AttemptValid(score) ==
    /\ Attempted("valid")
    /\ v_result' = << Opinion(v_judge, v_criterion, score, << v_criterion >>,
                              FALSE, FALSE, FALSE) >>
    /\ v_pc' = "returned"

AttemptInvalidRaises(outcome) ==
    /\ Attempted(outcome)
    /\ v_result' = v_result
    /\ v_pc' = IF RetriesExhausted(v_attempts') THEN "raised" ELSE "calling"

\* the output is invalid: retry, or hand back the placeholder after the last
\* attempt
AttemptInvalid(outcome) ==
    /\ Attempted(outcome)
    /\ IF RetriesExhausted(v_attempts')
       THEN /\ v_result' = << PlaceholderOpinion(v_judge, v_criterion) >>
            /\ v_pc' = "returned"
       ELSE /\ v_result' = v_result
            /\ v_pc' = "calling"

\* the judgment backend cannot be reached at all: the error is raised
AttemptUnreachable ==
    /\ Attempted("unreachable")
    /\ v_result' = v_result
    /\ v_pc' = "raised"

ValidatorNext ==
    \/ \E score \in ScoreRange : AttemptValid(score)
    \/ \E outcome \in InvalidOutputs : AttemptInvalid(outcome)
    \/ AttemptUnreachable

InitValidator ==
    /\ GraphIdle /\ MergeIdle /\ SynthIdle /\ ValidatorInit /\ ApiIdle
    /\ ReportIdle /\ WorkersIdle
    /\ StageIdle /\ UiIdle /\ SplitIdle

SpecValidator == InitValidator /\ [][ValidatorNext]_vars

AllMalformed == \A i \in DOMAIN v_log : v_log[i].outcome = "malformed"

\* C7: when every attempt returned malformed output, the wrapper never makes
\* more than MaxAttempts attempts and keeps calling only below that number;
\* it has returned exactly after MaxAttempts attempts, with the placeholder
\* opinion (score within MinScore..MaxScore, no cited evidence); it has not
\* raised.
C7_PlaceholderAfterMaxAttempts ==
    AllMalformed =>
        /\ v_attempts <= MaxAttempts
        /\ v_pc # "raised"
        /\ v_pc = "calling" <=> v_attempts < MaxAttempts
        /\ v_pc = "returned" <=>
               /\ v_attempts = MaxAttempts
               /\ v_result = << PlaceholderOpinion(v_judge, v_criterion) >>
               /\ v_result[1].score \in ScoreRange
               /\ v_result[1].cited_evidence = <<>>

\* the wrapper has returned after malformed output on every attempt
C7_Witness ==
    /\ v_pc = "returned"
    /\ v_log # <<>>
    /\ AllMalformed
    /\ v_result[1].placeholder

LastOutcome == v_log[Len(v_log)].outcome

AllInvalidEndingInCallError ==
    /\ v_log # <<>>
    /\ \A i \in DOMAIN v_log : v_log[i].outcome \in InvalidOutputs
    /\ LastOutcome = "call_error"

C29_JsonOnlyOnceAfterPrimaryFailed ==
    /\ v_log # <<>> => v_log[1].mode = "structured"
    /\ \A i \in DOMAIN v_log :
           v_log[i].mode = "json_only" =>
               (i > 1 /\ v_log[1].outcome \in InvalidOutputs)
    /\ Cardinality({i \in DOMAIN v_log : v_log[i].mode = "json_only"}) <= 1
    /\ (v_log # <<>> /\ v_log[1].outcome = "valid") =>
           /\ Len(v_log) = 1
           /\ v_pc = "returned"
           /\ v_result # None
           /\ ~v_result[1].placeholder

\* the JSON-only retry was made after an invalid first output and gave a
\* valid opinion
C29_Witness ==
    /\ Len(v_log) = 2
    /\ v_log[1].outcome \in InvalidOutputs
    /\ v_log[2].mode = "json_only"
    /\ v_log[2].outcome = "valid"
    /\ v_pc = "returned"

(***************************************************************************)
(* synthesize on its own: one criterion, the opinions about it in any      *)
(* order, the evidence of its dimension                                    *)
(***************************************************************************)
\* a repository criterion and the architecture criterion
SynthCriteria == {rubric_dimensions[1], rubric_dimensions[2]}

\* the opinions one persona can hand in: a placeholder, or a score with the
\* flags the rules read (only the Prosecutor reports security flaws, only
\* the Defense and the Tech Lead credit a capability)
OpinionsOf(p, c) ==
    {PlaceholderOpinion(p, c.id)} \cup
    {Opinion(p, c.id, score, << c.id >>, security, credits, FALSE) :
        score \in ScoreRange,
        security \in IF p = "Prosecutor" THEN BOOLEAN ELSE {FALSE},
        credits \in IF p = "Prosecutor" THEN {FALSE} ELSE BOOLEAN}

AllOpinions(c) == UNION {OpinionsOf(p, c) : p \in Personas}

\* lists of at most one opinion per persona, in every order
OpinionLists(c) ==
    {ops \in UNION {[1..n -> AllOpinions(c)] : n \in 0..Cardinality(Personas)} :
        \A i \in DOMAIN ops : \A k \in DOMAIN ops :
            ops[i].judge = ops[k].judge => i = k}

\* the evidence of the criterion: none, found, or not found
EvidenceMaps(c) ==
    {EmptyMap} \cup
    {[k \in {c.id} |-> << Evidence(c.id, found, "repo_investigator") >>] :
        found \in BOOLEAN}

SynthInit ==
    /\ s_criterion \in SynthCriteria
    /\ s_opinions \in OpinionLists(s_criterion)
    /\ s_evidences \in EvidenceMaps(s_criterion)
    /\ s_result = None
    /\ s_pc = "input"

Synthesize ==
    /\ s_pc = "input"
    /\ s_result' = << synthesize(s_criterion, s_opinions, s_evidences) >>
    /\ s_pc' = "done"
    /\ UNCHANGED <<s_criterion, s_opinions, s_evidences>>
    /\ UNCHANGED <<gvars, mvars, vvars, avars, rvars, wvars,
                   xvars, uvars, pvars>>

SynthNext == Synthesize

InitSynth ==
    /\ GraphIdle /\ MergeIdle /\ SynthInit /\ ValidatorIdle /\ ApiIdle
    /\ ReportIdle /\ WorkersIdle
    /\ StageIdle /\ UiIdle /\ SplitIdle

SpecSynth == InitSynth /\ [][SynthNext]_vars

DissentSet == s_result[1].dissent_summary # NoDissent

C6_SecurityCapsFinalScore ==
    (s_pc = "done" /\ SecurityOverride(s_opinions)) =>
        s_result[1].final_score <= SecurityCap

\* a security flaw capped an architecture criterion the Tech Lead scored 5
C6_Witness ==
    /\ s_pc = "done"
    /\ SecurityOverride(s_opinions)
    /\ FunctionalityApplies(s_criterion, s_opinions, s_evidences)
    /\ TechLeadScore(s_opinions, s_evidences) = MaxScore
    /\ s_result[1].final_score = SecurityCap

\* no override rule applies: no security flaw cited, no opinion contradicted
\* by the evidence, no functionality weighting
NoOverride ==
    /\ ~SecurityOverride(s_opinions)
    /\ \A i \in DOMAIN s_opinions : ~Contradicted(s_opinions[i], s_evidences)
    /\ ~FunctionalityApplies(s_criterion, s_opinions, s_evidences)

\* x is a median of the scores s: at most half of them are lower, at most
\* half of them are higher
IsMedian(x, s) ==
    /\ 2 * Cardinality({i \in DOMAIN s : s[i] < x}) <= Len(s)
    /\ 2 * Cardinality({i \in DOMAIN s : s[i] > x}) <= Len(s)

SortedScores == SortSeq(RawScores(s_opinions), <)

MedianCase ==
    /\ s_pc = "done"
    /\ s_opinions # <<>>
    /\ NoOverride
    /\ Spread(s_opinions) <= DissentThreshold

VarianceDissent == "Score variance > 2; re-evaluation applied"

\* C19: whenever the spread exceeds DissentThreshold the result is marked
\* re-evaluated and dissent_summary is the variance dissent; for scores
\* 1, 5, 5 both happen, and without an override rule the re-evaluated final
\* score is 3.
C19_ReEvaluationAboveThreshold ==
    (s_pc = "done" /\ Spread(s_opinions) > DissentThreshold) =>
        /\ s_result[1].re_evaluated
        /\ s_result[1].dissent_summary = VarianceDissent
        /\ (SortedScores = <<1, 5, 5>> /\ NoOverride) =>
               s_result[1].final_score = 3

\* three opinions with scores 1, 5, 5 were synthesized
C19_Witness ==
    /\ s_pc = "done"
    /\ SortedScores = <<1, 5, 5>>
    /\ s_result[1].re_evaluated
    /\ DissentSet

\* the opinions in the order given by permutation f of their positions
Reordered(ops, f) == [i \in DOMAIN ops |-> ops[f[i]]]

WithinRawRange ==
    LET S == {s_opinions[i].score : i \in DOMAIN s_opinions}
    IN  /\ SetMin(S) <= s_result[1].final_score
        /\ s_result[1].final_score <= SetMax(S)

MaxEvidencePerKey == 2

MergeKeys == {"git_forensic_analysis", "theoretical_depth"}

\* lists of up to MaxEvidencePerKey items written by one writer
EvidenceLists(writer) ==
    UNION {[1..n -> {Evidence("goal", found, writer) : found \in BOOLEAN}] :
              n \in 0..MaxEvidencePerKey}

EvidenceMapsOf(writer) ==
    UNION {[S -> EvidenceLists(writer)] : S \in SUBSET MergeKeys}

MergeInit ==
    /\ m_state \in EvidenceMapsOf("state")
    /\ m_update \in EvidenceMapsOf("partial")
    /\ m_merged = EmptyMap
    /\ m_pc = "input"

\* the engine applies the reducer of the evidences channel
MergeEvidences ==
    /\ m_pc = "input"
    /\ m_merged' = Ior(m_state, m_update)
    /\ m_pc' = "merged"
    /\ UNCHANGED <<m_state, m_update>>
    /\ UNCHANGED <<gvars, svars, vvars, avars, rvars, wvars,
                   xvars, uvars, pvars>>

MergeNext == MergeEvidences

InitMerge ==
    /\ GraphIdle /\ MergeInit /\ SynthIdle /\ ValidatorIdle /\ ApiIdle
    /\ ReportIdle /\ WorkersIdle
    /\ StageIdle /\ UiIdle /\ SplitIdle

SpecMerge == InitMerge /\ [][MergeNext]_vars

\* every item of list a occurs in list b at least as often
Contains(b, a) == \A i \in DOMAIN a : Count(b, a[i]) >= Count(a, a[i])

MaxConcurrentRuns == 2

\* at least one of repo_url, pdf_path is required
ValidInputsAlways(repo, pdf) == TRUE

ValidInputs(repo, pdf) == repo # "" \/ pdf # ""

Running == {k \in RunIds : a_store[k].status = "running"}

\* POST /api/run (of the request, the record keeps whether it named no input
\* at all and its wait flag): a request without subject input is answered with a
\* validation error; otherwise a record is created (pending) and, with
\* wait=false, its run id is returned at once
Submit(repo, pdf, wait) ==
    /\ a_next \in RunIds
    /\ a_next' = a_next + 1
    /\ a_request' = [a_request EXCEPT ![a_next] =
                        << [no_input |-> (repo = "" /\ pdf = ""), wait |-> wait] >>]
    /\ IF ValidInputs(repo, pdf)
       THEN /\ a_store' = [a_store EXCEPT ![a_next] =
                              [status |-> "pending", result |-> FALSE,
                               error |-> FALSE]]
            /\ a_response' = [a_response EXCEPT ![a_next] =
                                 IF wait THEN "none" ELSE "run_id"]
       ELSE /\ a_store' = a_store
            /\ a_response' = [a_response EXCEPT ![a_next] = "rejected"]
    /\ UNCHANGED a_seen
    /\ UNCHANGED <<gvars, mvars, svars, vvars, rvars, wvars,
                   xvars, uvars, pvars>>

\* the admission gate lets a pending run start while fewer than
\* MaxConcurrentRuns runs execute
AcquireUngated(k) ==
    /\ a_store[k].status = "pending"
    /\ a_store' = [a_store EXCEPT ![k].status = "running"]
    /\ UNCHANGED <<a_request, a_response, a_next, a_seen>>
    /\ UNCHANGED <<gvars, mvars, svars, vvars, rvars, wvars,
                   xvars, uvars, pvars>>

AcquireClosedGate(k) ==
    /\ a_store[k].status = "pending"
    /\ Cardinality(Running) < 0
    /\ a_store' = [a_store EXCEPT ![k].status = "running"]
    /\ UNCHANGED <<a_request, a_response, a_next, a_seen>>
    /\ UNCHANGED <<gvars, mvars, svars, vvars, rvars, wvars,
                   xvars, uvars, pvars>>

Acquire(k) ==
    /\ a_store[k].status = "pending"
    /\ Cardinality(Running) < MaxConcurrentRuns
    /\ a_store' = [a_store EXCEPT ![k].status = "running"]
    /\ UNCHANGED <<a_request, a_response, a_next, a_seen>>
    /\ UNCHANGED <<gvars, mvars, svars, vvars, rvars, wvars,
                   xvars, uvars, pvars>>

\* the graph execution of run k ends: the record is updated once, the gate
\* is released, a waiting caller gets its answer
FinishStatusBeforeResult(k, ok) ==
    /\ a_store[k].status = "running"
    /\ a_store' = [a_store EXCEPT ![k] =
                      [status |-> IF ok THEN "completed" ELSE "failed",
                       result |-> FALSE, error |-> FALSE]]
    /\ a_response' = [a_response EXCEPT ![k] =
                         IF a_request[k][1].wait
                         THEN (IF ok THEN "report" ELSE "failure") ELSE @]
    /\ UNCHANGED <<a_request, a_next, a_seen>>
    /\ UNCHANGED <<gvars, mvars, svars, vvars, rvars, wvars,
                   xvars, uvars, pvars>>

FinishRequeuesFailed(k, ok) ==
    /\ a_store[k].status = "running"
    /\ a_store' = [a_store EXCEPT ![k] =
                      [status |-> IF ok THEN "completed" ELSE "pending",
                       result |-> ok, error |-> FALSE]]
    /\ a_response' = [a_response EXCEPT ![k] =
                         IF a_request[k][1].wait /\ ok THEN "report" ELSE @]
    /\ UNCHANGED <<a_request, a_next, a_seen>>
    /\ UNCHANGED <<gvars, mvars, svars, vvars, rvars, wvars,
                   xvars, uvars, pvars>>

Finish(k, ok) ==
    /\ a_store[k].status = "running"
    /\ a_store' = [a_store EXCEPT ![k] =
                      [status |-> IF ok THEN "completed" ELSE "failed",
                       result |-> ok, error |-> ~ok]]
    /\ a_response' = [a_response EXCEPT ![k] =
                         IF a_request[k][1].wait
                         THEN (IF ok THEN "report" ELSE "failure") ELSE @]
    /\ UNCHANGED <<a_request, a_next, a_seen>>
    /\ UNCHANGED <<gvars, mvars, svars, vvars, rvars, wvars,
                   xvars, uvars, pvars>>

\* GET /api/run/{run_id}: the record as it stands
Poll(k) ==
    /\ a_store[k].status # "absent"
    /\ a_seen' = a_store[k]
    /\ UNCHANGED <<a_store, a_request, a_response, a_next>>
    /\ UNCHANGED <<gvars, mvars, svars, vvars, rvars, wvars,
                   xvars, uvars, pvars>>

ApiNext ==
    \/ \E repo \in RepoUrls, pdf \in PdfPaths, wait \in BOOLEAN :
           Submit(repo, pdf, wait)
    \/ \E k \in RunIds : Acquire(k)
    \/ \E k \in RunIds, ok \in BOOLEAN : Finish(k, ok)
    \/ \E k \in RunIds : Poll(k)

InitApi ==
    /\ GraphIdle /\ MergeIdle /\ SynthIdle /\ ValidatorIdle /\ ApiIdle
    /\ ReportIdle /\ WorkersIdle
    /\ StageIdle /\ UiIdle /\ SplitIdle

SpecApi == InitApi /\ [][ApiNext]_vars

\* a graph execution ends (every run of the graph terminates) and the gate
\* wakes a waiting run when a slot is free
FairSpecApi ==
    /\ SpecApi
    /\ \A k \in RunIds : WF_vars(Acquire(k))
    /\ \A k \in RunIds : WF_vars(\E ok \in BOOLEAN : Finish(k, ok))

Submitted(k) == a_request[k] # None

TerminalStatus == {"completed", "failed"}

\* C12: a request without repository and without document is answered with
\* a validation error and gets no run: no record is created for it, so it is
\* never pending, running or completed, and no report is returned.
C12_NoInputRejected ==
    \A k \in RunIds :
        (Submitted(k) /\ a_request[k][1].no_input) =>
            /\ a_store[k] = AbsentRecord
            /\ a_response[k] = "rejected"

\* a request without input was rejected while an earlier run executes
C12_Witness ==
    \E k \in RunIds :
        /\ Submitted(k)
        /\ a_request[k][1].no_input
        /\ a_response[k] = "rejected"
        /\ Running # {}

StatusSteps ==
    {<<"absent", "pending">>, <<"pending", "running">>,
     <<"running", "completed">>, <<"running", "failed">>}

\* C14: in every step a record either stays as it is or moves one status
\* forward (created pending, pending to running, running to completed or
\* failed); a record is created only under the next unused run id, which is
\* then used up.
C14_StatusMovesForward ==
    [][\A k \in RunIds :
          \/ a_store'[k] = a_store[k]
          \/ /\ <<a_store[k].status, a_store'[k].status>> \in StatusSteps
             /\ a_store[k].status = "absent" =>
                    (k = a_next /\ a_next' = a_next + 1)]_vars

\* one run has completed, one has failed, one is still pending
C14_Witness ==
    /\ \E k \in RunIds : a_store[k].status = "completed"
    /\ \E k \in RunIds : a_store[k].status = "failed"
    /\ \E k \in RunIds : a_store[k].status = "pending"

\* C15: never more than MaxConcurrentRuns runs have status running.
C15_AtMostMaxConcurrentRuns == Cardinality(Running) <= MaxConcurrentRuns

\* the gate is full and another run, submitted with wait=true, waits
C15_Witness ==
    /\ Cardinality(Running) = MaxConcurrentRuns
    /\ \E k \in RunIds :
           a_store[k].status = "pending" /\ a_request[k][1].wait
    /\ \E k \in Running : ~a_request[k][1].wait

Consistent(rec) ==
    /\ rec.result <=> rec.status = "completed"
    /\ rec.error <=> rec.status = "failed"

C17_EveryRunReachesTerminal ==
    \A k \in RunIds :
        (a_store[k].status \in {"pending", "running"})
            ~> (a_store[k].status \in TerminalStatus)

\* every run has ended; the last one was submitted with wait=false and a
\* poll has returned its terminal record
C17_Witness ==
    /\ a_store[MaxRuns].status \in TerminalStatus
    /\ a_response[MaxRuns] = "run_id"
    /\ a_seen = a_store[MaxRuns]
    /\ \A k \in RunIds : a_store[k].status \in TerminalStatus


(***************************************************************************)
(* The final_report field on its own: AgentState declares it without a     *)
(* reducer, so a write replaces the value of the field                     *)
(***************************************************************************)
\* the field's update when it is declared with a write-once reducer
WriteOnce(old, new) ==
    IF old = None THEN [value |-> << new >>, error |-> FALSE]
    ELSE [value |-> old, error |-> TRUE]

\* the field's update as declared: the last value written is the value
LastValue(old, new) == [value |-> << new >>, error |-> FALSE]

MaxReportWrites == 2

\* reports of one criterion
Reports ==
    {[repo_url |-> "https://github.com/owner/repo",
      criteria |-> << [dimension_id |-> d, final_score |-> score] >>,
      overall_score |-> 100 * score] : d \in DimIds, score \in ScoreRange}

\* a node returns {"final_report": report}
WriteFinalReport(report) ==
    /\ Len(r_log) < MaxReportWrites
    /\ ~r_error
    /\ r_report' = LastValue(r_report, report).value
    /\ r_error' = LastValue(r_report, report).error
    /\ r_log' = Append(r_log, report)
    /\ UNCHANGED <<gvars, mvars, svars, vvars, avars, wvars,
                   xvars, uvars, pvars>>

ReportNext == \E report \in Reports : WriteFinalReport(report)

InitReport ==
    /\ GraphIdle /\ MergeIdle /\ SynthIdle /\ ValidatorIdle /\ ApiIdle
    /\ ReportIdle /\ WorkersIdle
    /\ StageIdle /\ UiIdle /\ SplitIdle

SpecReport == InitReport /\ [][ReportNext]_vars

MaxWorkers == 3

TaskKind(t) == IF t \in DetectiveNodes THEN "detective" ELSE "judge"

RunningTasks(kind) ==
    {t \in WorkerTasks : TaskKind(t) = kind /\ w_task[t] = "running"}

\* one bound for both pools
WorkersShared(kind) == w_detective_workers

Workers(kind) ==
    IF kind = "detective" THEN w_detective_workers ELSE w_judge_workers

SlotFree(kind) == Cardinality(RunningTasks(kind)) < Workers(kind)

WorkersInit ==
    /\ w_detective_workers \in 1..MaxWorkers
    /\ w_judge_workers \in 1..MaxWorkers
    /\ w_task = [t \in WorkerTasks |-> "waiting"]

\* a worker of the task's pool takes the task; the judges are submitted
\* behind the barrier of the detectives
StartTask(t) ==
    /\ w_task[t] = "waiting"
    /\ SlotFree(TaskKind(t))
    /\ t \in JudgeNodes => \A d \in DetectiveNodes : w_task[d] = "done"
    /\ w_task' = [w_task EXCEPT ![t] = "running"]
    /\ UNCHANGED <<w_detective_workers, w_judge_workers>>
    /\ UNCHANGED <<gvars, mvars, svars, vvars, avars, rvars,
                   xvars, uvars, pvars>>

FinishTask(t) ==
    /\ w_task[t] = "running"
    /\ w_task' = [w_task EXCEPT ![t] = "done"]
    /\ UNCHANGED <<w_detective_workers, w_judge_workers>>
    /\ UNCHANGED <<gvars, mvars, svars, vvars, avars, rvars,
                   xvars, uvars, pvars>>

WorkersNext ==
    \/ \E t \in WorkerTasks : StartTask(t)
    \/ \E t \in WorkerTasks : FinishTask(t)

InitWorkers ==
    /\ GraphIdle /\ MergeIdle /\ SynthIdle /\ ValidatorIdle /\ ApiIdle
    /\ ReportIdle /\ WorkersInit
    /\ StageIdle /\ UiIdle /\ SplitIdle

SpecWorkers == InitWorkers /\ [][WorkersNext]_vars

\* C27: the number of detective tasks running at the same time is at most
\* AUDITOR_DETECTIVE_WORKERS and the number of judge tasks running at the
\* same time is at most AUDITOR_JUDGE_WORKERS, each whatever the other
\* bound is.
C27_WorkerBoundsHold ==
    /\ Cardinality(RunningTasks("detective")) <= w_detective_workers
    /\ Cardinality(RunningTasks("judge")) <= w_judge_workers

\* the judge pool is full with more tasks than the detective bound allows
\* and a judge task is waiting for a worker
C27_Witness ==
    /\ w_detective_workers < w_judge_workers
    /\ Cardinality(RunningTasks("judge")) = w_judge_workers
    /\ \E j \in JudgeNodes : w_task[j] = "waiting"


(***************************************************************************)
(* The nodes behind the aggregator: report_accuracy (cross-reference of    *)
(* the report's file paths with the repository evidence), the judges,      *)
(* chief_justice, and what each returns for the evidences field            *)
(***************************************************************************)
CrossReferenceKey == "report_accuracy"

\* the judges return evidence of their own for a repository dimension
NodeEvidenceJudgesWrite(n, outcome) ==
    IF n = "chief_justice" \/ outcome = "nothing" THEN EmptyMap
    ELSE [k \in {IF n = "judges" THEN "git_forensic_analysis"
                 ELSE CrossReferenceKey} |->
             << Evidence(k, outcome = "found", n) >>]

\* what a node returns under "evidences": the cross-reference returns
\* Evidence for its dimension, or nothing when it has nothing to compare;
\* judges return opinions and chief_justice the report, no evidence
NodeEvidence(n, outcome) ==
    IF n = "report_accuracy" /\ outcome # "nothing"
    THEN [k \in {CrossReferenceKey} |->
             << Evidence(k, outcome = "found", n) >>]
    ELSE EmptyMap

\* evidence maps the aggregator's barrier can leave: a repository
\* dimension, a report dimension, and the cross-reference dimension as
\* DocAnalyst returns it
AggregatedKeys ==
    {"git_forensic_analysis", "theoretical_depth", CrossReferenceKey}
AggregatedLists ==
    {<< Evidence("goal", found, "detective") >> : found \in BOOLEAN}
AggregatedMaps ==
    UNION {[S -> AggregatedLists] : S \in SUBSET AggregatedKeys}

StageInit ==
    /\ x_aggregated \in AggregatedMaps
    /\ x_evidences = x_aggregated
    /\ x_stage = "evidence_aggregator"

NextNode ==
    IF x_stage = "evidence_aggregator" THEN "report_accuracy"
    ELSE IF x_stage = "report_accuracy" THEN "judges"
    ELSE IF x_stage = "judges" THEN "chief_justice"
    ELSE "END"

\* the next node returns and the engine merges what it returned
NodeReturn(outcome) ==
    /\ NextNode # "END"
    /\ x_evidences' = Ior(x_evidences, NodeEvidence(NextNode, outcome))
    /\ x_stage' = NextNode
    /\ UNCHANGED x_aggregated
    /\ UNCHANGED <<gvars, mvars, svars, vvars, avars, rvars, wvars,
                   uvars, pvars>>

StageNext == \E outcome \in {"found", "not_found", "nothing"} : NodeReturn(outcome)

InitStage ==
    /\ GraphIdle /\ MergeIdle /\ SynthIdle /\ ValidatorIdle /\ ApiIdle
    /\ ReportIdle /\ WorkersIdle
    /\ StageInit /\ UiIdle /\ SplitIdle

SpecStage == InitStage /\ [][StageNext]_vars

Truthy(id) == id # ""

\* rubric.filter(target_artifact in artifacts).map(d => d.id), every id kept
RubricIdsUnfiltered(rubric, artifacts) ==
    {rubric[i].id :
        i \in {k \in DOMAIN rubric : rubric[k].target_artifact \in artifacts}}

\* new Set(rubric.filter(target_artifact in artifacts).map(d => d.id)
\*             .filter(Boolean))
RubricIds(rubric, artifacts) ==
    {id \in {rubric[i].id :
                i \in {k \in DOMAIN rubric :
                           rubric[k].target_artifact \in artifacts}} :
        Truthy(id)}

RepoArtifacts   == {"github_repo"}
ReportArtifacts == {"pdf_report", "pdf_images"}

splitEvidencesByArtifact(data, rubric) ==
    LET repoIds   == RubricIds(rubric, RepoArtifacts)
        reportIds == RubricIds(rubric, ReportArtifacts)
        toRepo    == {dimId \in DOMAIN data : dimId \in repoIds}
        toReport  == {dimId \in DOMAIN data :
                         dimId \notin repoIds /\ dimId \in reportIds}
    IN  [repo   |-> [dimId \in toRepo |-> data[dimId]],
         report |-> [dimId \in toReport |-> data[dimId]]]

(***************************************************************************)
(* The web UI: the form of the first page (runAudit) and the three tabs    *)
(* (runRepoAudit, runDocAudit, runParallelAudit)                           *)
(***************************************************************************)
\* a text is a list of characters; the empty list is "".  The texts put
\* into a URL field: nothing, white space only, a URL, a URL within white
\* space
Texts == {<<>>, << " " >>, << "u" >>, << " ", "u", " " >>}

IsSpace(c) == c = " "

RECURSIVE TrimStart(_)
TrimStart(t) ==
    IF t # <<>> /\ IsSpace(Head(t)) THEN TrimStart(Tail(t)) ELSE t

RECURSIVE TrimEnd(_)
TrimEnd(t) ==
    IF t # <<>> /\ IsSpace(t[Len(t)])
    THEN TrimEnd(SubSeq(t, 1, Len(t) - 1))
    ELSE t

TrimNothing(t) == t

\* String.prototype.trim
trim(t) == TrimEnd(TrimStart(t))

\* what the user has put into a form when its Run button is clicked: the
\* fields the handler of the form reads
FormInputs(f) ==
    [url : Texts,
     doc : IF f = "parallelism" THEN Texts ELSE {<<>>},
     mode : IF f = "audit" THEN {"repo", "doc"} ELSE {"repo"},
     rubricJson : IF f = "audit"
                  THEN {"invalid", "no_dimension", "dimensions"}
                  ELSE {"dimensions"}]

\* the request body the handler of a form builds
RequestBody(f, in) ==
    IF f = "audit"
    THEN [repo_url |-> IF in.mode = "repo" THEN trim(in.url) ELSE <<>>,
          pdf_path |-> IF in.mode = "doc" THEN trim(in.url) ELSE <<>>]
    ELSE IF f = "repository" THEN [repo_url |-> trim(in.url), pdf_path |-> <<>>]
    ELSE IF f = "document" THEN [repo_url |-> <<>>, pdf_path |-> trim(in.url)]
    ELSE [repo_url |-> trim(in.url), pdf_path |-> trim(in.doc)]

\* the early returns of a handler: the message it sets, or None
ValidationError(f, in) ==
    IF f = "audit" THEN
        IF trim(in.url) = <<>> THEN << "Enter a Repo URL or Doc URL." >>
        ELSE IF in.rubricJson = "invalid" THEN << "Rubric must be valid JSON." >>
        ELSE IF in.rubricJson = "no_dimension"
             THEN << "Rubric must contain at least one dimension." >>
        ELSE None
    ELSE IF f = "parallelism" /\ (trim(in.url) = <<>> \/ trim(in.doc) = <<>>)
         THEN << "Enter both repository URL and document URL." >>
    ELSE IF f = "repository" /\ trim(in.url) = <<>>
         THEN << "Enter repository URL." >>
    ELSE IF f = "document" /\ trim(in.url) = <<>>
         THEN << "Enter document (PDF) path or URL." >>
    ELSE IF u_rubric = <<>> THEN << "Rubric not loaded." >>
    ELSE None

ResultFieldsOf(f) ==
    IF f = "parallelism" THEN {"parallel_repo", "parallel_doc"} ELSE {f}

ButtonNeverDisabled(f) == FALSE

\* the disabled attribute of the Run button of a form
ButtonDisabled(f) ==
    IF f = "audit" THEN u_loading[f] ELSE u_loading[f] \/ u_rubric = <<>>

\* requests of one form in flight at once that the model follows
MaxInFlight == 2

\* useEffect: GET /api/rubric has answered
LoadRubric(outcome) ==
    /\ u_rubric = <<>>
    /\ u_rubric_error = None
    /\ u_rubric' = IF outcome = "dimensions" THEN rubric_dimensions ELSE <<>>
    /\ u_rubric_error' =
          IF outcome = "dimensions" THEN None
          ELSE IF outcome = "no_dimension"
               THEN << "Rubric not loaded (rubric.json)." >>
          ELSE << "Failed to load rubric from API." >>
    /\ UNCHANGED <<u_loading, u_error, u_evidences, u_inflight>>
    /\ UNCHANGED <<gvars, mvars, svars, vvars, avars, rvars, wvars,
                   xvars, pvars>>

\* a click on the Run button of a form: the handler up to its first await
Run(f, in) ==
    /\ ~ButtonDisabled(f)
    /\ Len(u_inflight[f]) < MaxInFlight
    /\ IF ValidationError(f, in) # None
       THEN /\ u_error' = [u_error EXCEPT ![f] = ValidationError(f, in)]
            /\ UNCHANGED <<u_evidences, u_loading, u_inflight>>
       ELSE /\ u_error' = [u_error EXCEPT ![f] = None]
            /\ u_evidences' = [r \in ResultFields |->
                                  IF r \in ResultFieldsOf(f) THEN None
                                  ELSE u_evidences[r]]
            /\ u_loading' = [u_loading EXCEPT ![f] = TRUE]
            /\ u_inflight' = [u_inflight EXCEPT
                                 ![f] = Append(@, RequestBody(f, in))]
    /\ UNCHANGED <<u_rubric, u_rubric_error>>
    /\ UNCHANGED <<gvars, mvars, svars, vvars, avars, rvars, wvars,
                   xvars, pvars>>

\* data.evidences of a successful response
ResponseEvidences ==
    {EmptyMap,
     [k \in {"git_forensic_analysis", "theoretical_depth"} |->
         << Evidence(k, TRUE, k) >>]}

\* the value put into a result field of a form
ResultOf(f, r, data) ==
    IF f # "parallelism" THEN data
    ELSE IF r = "parallel_repo"
         THEN splitEvidencesByArtifact(data, u_rubric).repo
    ELSE splitEvidencesByArtifact(data, u_rubric).report

LoadingKeptOnError(ok) == ~ok

\* the loading flag after the request has ended: finally { setLoading(false) }
LoadingAfter(ok) == FALSE

\* the response to the oldest request of a form: res.ok and the evidences
RequestSucceeded(f, data) ==
    /\ u_inflight[f] # <<>>
    /\ u_inflight' = [u_inflight EXCEPT ![f] = Tail(@)]
    /\ u_evidences' = [r \in ResultFields |->
                          IF r \in ResultFieldsOf(f)
                          THEN << ResultOf(f, r, data) >>
                          ELSE u_evidences[r]]
    /\ u_loading' = [u_loading EXCEPT ![f] = LoadingAfter(TRUE)]
    /\ UNCHANGED <<u_rubric, u_rubric_error, u_error>>
    /\ UNCHANGED <<gvars, mvars, svars, vvars, avars, rvars, wvars,
                   xvars, pvars>>

\* an HTTP error answer, or fetch threw: the catch block
RequestFailed(f, message) ==
    /\ u_inflight[f] # <<>>
    /\ u_inflight' = [u_inflight EXCEPT ![f] = Tail(@)]
    /\ u_error' = [u_error EXCEPT ![f] = << message >>]
    /\ u_loading' = [u_loading EXCEPT ![f] = LoadingAfter(FALSE)]
    /\ UNCHANGED <<u_rubric, u_rubric_error, u_evidences>>
    /\ UNCHANGED <<gvars, mvars, svars, vvars, avars, rvars, wvars,
                   xvars, pvars>>

FailureMessages == {"At least one of repo_url or pdf_path required", "Request failed"}

UiNext ==
    \/ \E outcome \in {"dimensions", "no_dimension", "failed"} :
           LoadRubric(outcome)
    \/ \E f \in Forms : \E in \in FormInputs(f) : Run(f, in)
    \/ \E f \in Forms, data \in ResponseEvidences : RequestSucceeded(f, data)
    \/ \E f \in Forms, message \in FailureMessages : RequestFailed(f, message)

InitUi ==
    /\ GraphIdle /\ MergeIdle /\ SynthIdle /\ ValidatorIdle /\ ApiIdle
    /\ ReportIdle /\ WorkersIdle
    /\ StageIdle /\ UiIdle /\ SplitIdle

SpecUi == InitUi /\ [][UiNext]_vars

\* a text with a character that is no white space
NonBlank(t) == \E i \in DOMAIN t : ~IsSpace(t[i])

\* C32: every request a form has sent carries a repo_url or a pdf_path that
\* is not blank; a request of the repository tab carries a repo_url, one of
\* the document tab a pdf_path, one of the parallelism tab both; a click
\* with nothing or only white space in the URL field has sent no request.
C32_RequestsCarryASubject ==
    \A f \in Forms : \A i \in DOMAIN u_inflight[f] :
        LET body == u_inflight[f][i] IN
        /\ NonBlank(body.repo_url) \/ NonBlank(body.pdf_path)
        /\ body.repo_url # <<>> => NonBlank(body.repo_url)
        /\ body.pdf_path # <<>> => NonBlank(body.pdf_path)
        /\ f = "repository" => NonBlank(body.repo_url)
        /\ f = "document" => NonBlank(body.pdf_path)
        /\ f = "parallelism" =>
               NonBlank(body.repo_url) /\ NonBlank(body.pdf_path)

\* the parallelism tab has a request in flight while a click on the
\* repository tab was rejected for its URL and sent nothing
C32_Witness ==
    /\ Len(u_inflight["parallelism"]) = 1
    /\ u_error["repository"] = << "Enter repository URL." >>
    /\ u_inflight["repository"] = <<>>
    /\ ~u_loading["repository"]

\* C33 as stated: in every form, while an error message is set no result
\* field of the form holds evidences.
C33_ErrorImpliesNoEvidences ==
    \A f \in Forms :
        u_error[f] # None =>
            \A r \in ResultFieldsOf(f) : u_evidences[r] = None

\* C34: no form has more than one request in flight.
C34_OneRequestInFlight ==
    \A f \in Forms : Len(u_inflight[f]) <= 1

\* two forms have a request in flight each, and the Run buttons of both
\* are disabled
C34_Witness ==
    /\ Len(u_inflight["repository"]) = 1
    /\ Len(u_inflight["audit"]) = 1
    /\ ButtonDisabled("repository")
    /\ ButtonDisabled("audit")

\* C35: the loading flag of a form is set exactly while a request of the
\* form is in flight: it is set when the request is sent, it is false again
\* when the request has ended with evidences or with an error, and a click
\* rejected by validation leaves it false.
C35_LoadingWhileInFlight ==
    \A f \in Forms : u_loading[f] <=> u_inflight[f] # <<>>

\* a request of the document tab has failed, a request of the repository
\* tab has succeeded, a click on the parallelism tab was rejected, and the
\* form of the first page is waiting for its answer
C35_Witness ==
    /\ u_error["document"] \in {<< m >> : m \in FailureMessages}
    /\ ~u_loading["document"]
    /\ u_evidences["repository"] # None
    /\ ~u_loading["repository"]
    /\ u_error["parallelism"] = << "Enter both repository URL and document URL." >>
    /\ ~u_loading["parallelism"]
    /\ u_loading["audit"]

MaxRubricLen == 2

SplitIds == {"", "git_forensic_analysis", "theoretical_depth"}
SplitArtifacts == RepoArtifacts \cup ReportArtifacts \cup {"other"}
RubricDims == [id : SplitIds, target_artifact : SplitArtifacts]
Rubrics == UNION {[1..n -> RubricDims] : n \in 0..MaxRubricLen}

SplitItemLists ==
    {<< Evidence("goal", TRUE, "src/graph.py") >>,
     << Evidence("goal", FALSE, "report.pdf"),
        Evidence("goal", TRUE, "src/graph.py") >>}
SplitEvidences == UNION {[S -> SplitItemLists] : S \in SUBSET SplitIds}

SplitInit ==
    /\ p_evidences \in SplitEvidences
    /\ p_rubric \in Rubrics
    /\ p_result = None
    /\ p_pc = "input"

Split ==
    /\ p_pc = "input"
    /\ p_result' = << splitEvidencesByArtifact(p_evidences, p_rubric) >>
    /\ p_pc' = "done"
    /\ UNCHANGED <<p_evidences, p_rubric>>
    /\ UNCHANGED <<gvars, mvars, svars, vvars, avars, rvars, wvars,
                   xvars, uvars>>

SplitNext == Split

InitSplit ==
    /\ GraphIdle /\ MergeIdle /\ SynthIdle /\ ValidatorIdle /\ ApiIdle
    /\ ReportIdle /\ WorkersIdle
    /\ StageIdle /\ UiIdle /\ SplitInit

SpecSplit == InitSplit /\ [][SplitNext]_vars

\* the rubric lists id with one of the artifacts
Lists(rubric, id, artifacts) ==
    \E i \in DOMAIN rubric :
        rubric[i].id = id /\ rubric[i].target_artifact \in artifacts

\* no dimension is in both outputs and every list is the input's list
SplitDisjointAndUnaltered ==
    /\ DOMAIN p_result[1].repo \cap DOMAIN p_result[1].report = {}
    /\ DOMAIN p_result[1].repo \subseteq DOMAIN p_evidences
    /\ DOMAIN p_result[1].report \subseteq DOMAIN p_evidences
    /\ \A d \in DOMAIN p_result[1].repo :
           p_result[1].repo[d] = p_evidences[d]
    /\ \A d \in DOMAIN p_result[1].report :
           p_result[1].report[d] = p_evidences[d]

\* C37 as stated: a dimension of the input is in repo exactly when the
\* rubric lists its id as github_repo, otherwise in report exactly when the
\* rubric lists its id as pdf_report or pdf_images; no dimension is in both
\* and the lists are unaltered.
C37_SplitByListedArtifact ==
    p_pc = "done" =>
        /\ SplitDisjointAndUnaltered
        /\ \A d \in DOMAIN p_evidences :
               /\ d \in DOMAIN p_result[1].repo
                      <=> Lists(p_rubric, d, RepoArtifacts)
               /\ d \in DOMAIN p_result[1].report
                      <=> (/\ ~Lists(p_rubric, d, RepoArtifacts)
                           /\ Lists(p_rubric, d, ReportArtifacts))

\* C37: a dimension of the input with a non-empty id is in repo exactly when
\* the rubric lists its id as github_repo, otherwise in report exactly when
\* the rubric lists its id as pdf_report or pdf_images; the dimension with
\* the empty id is in neither output, whatever the rubric lists; no
\* dimension is in both and the lists are unaltered.
C37_SplitByListedNonEmptyId ==
    p_pc = "done" =>
        /\ SplitDisjointAndUnaltered
        /\ \A d \in DOMAIN p_evidences :
               /\ d \in DOMAIN p_result[1].repo
                      <=> (d # "" /\ Lists(p_rubric, d, RepoArtifacts))
               /\ d \in DOMAIN p_result[1].report
                      <=> (/\ d # ""
                           /\ ~Lists(p_rubric, d, RepoArtifacts)
                           /\ Lists(p_rubric, d, ReportArtifacts))

\* the dimension with the empty id, which the rubric lists as github_repo,
\* went to neither output, and another dimension went to one of them
C37_Witness ==
    /\ p_pc = "done"
    /\ "" \in DOMAIN p_evidences
    /\ Lists(p_rubric, "", RepoArtifacts)
    /\ "" \notin DOMAIN p_result[1].repo \cup DOMAIN p_result[1].report
    /\ DOMAIN p_result[1].repo \cup DOMAIN p_result[1].report # {}

====
